---- MODULE Spec2Model ----
(***************************************************************************)
(* Model of scripts/check-python-versions.py: the version alignment audit  *)
(* of the Python geospatial packages against the system GDAL/PROJ/GEOS.    *)
(*                                                                         *)
(* A Python str is a sequence of characters. A printable ASCII character   *)
(* and each of \t \n \r \f is the one-character string; any other          *)
(* character is the string "U+XXXX" of its code point in upper-case hex    *)
(* (vertical tab "U+000B", no-break space "U+00A0"). None is the value     *)
(* None below, which is no sequence of characters.                         *)
(***************************************************************************)
EXTENDS Integers, Sequences, FiniteSets, TLC

VARIABLES
    pc,          \* position of the script
    system,      \* system_gdal, system_proj, system_geos
    results,     \* the results dict, in insertion order
    probed,      \* what each probe met in the environment
    verdict,     \* gdal_ok, proj_ok, geos_ok
    mismatches,  \* the mismatches list of each check_alignment call
    nodata,      \* check_alignment took the "No packages report" return
    exit_code,   \* the process exit status
    fault,       \* the uncaught exception, if any
    n_pc, v_in, v_base, v_norm, v_norm2,   \* normalize_version applied to an input
    g_pc, gp_info, gp_parsed               \* the geopandas report parser applied to a text

vars == <<pc, system, results, probed, verdict, mismatches, nodata, exit_code,
          fault, n_pc, v_in, v_base, v_norm, v_norm2, g_pc, gp_info, gp_parsed>>

runVars   == <<pc, system, results, probed, verdict, mismatches, nodata, exit_code, fault>>
normVars  == <<n_pc, v_in, v_base, v_norm, v_norm2>>
parseVars == <<g_pc, gp_info, gp_parsed>>

----------------------------------------------------------------------------
(* Python values *)

None == <<"None">>

NL == "\n"

\* the characters str.strip() removes: those with str.isspace()
Whitespace ==
    {"\t", NL, "U+000B", "\f", "\r", "U+001C", "U+001D", "U+001E", "U+001F", " ",
     "U+0085", "U+00A0", "U+1680", "U+2000", "U+2001", "U+2002", "U+2003",
     "U+2004", "U+2005", "U+2006", "U+2007", "U+2008", "U+2009", "U+200A",
     "U+2028", "U+2029", "U+202F", "U+205F", "U+3000"}

\* s[i:], 1-based
From(s, i) == IF i > Len(s) THEN <<>> ELSE SubSeq(s, i, Len(s))

\* str.startswith
StartsWith(s, p) == Len(p) <= Len(s) /\ SubSeq(s, 1, Len(p)) = p

\* p in s
Contains(s, p) == \E i \in 1..(Len(s) - Len(p) + 1) : SubSeq(s, i, i + Len(p) - 1) = p

RECURSIVE LStrip(_)
LStrip(s) == IF s # <<>> /\ Head(s) \in Whitespace THEN LStrip(Tail(s)) ELSE s

RECURSIVE RStrip(_)
RStrip(s) ==
    IF s # <<>> /\ s[Len(s)] \in Whitespace THEN RStrip(SubSeq(s, 1, Len(s) - 1)) ELSE s

\* str.strip()
Strip(s) == RStrip(LStrip(s))

\* index of the first sep at or after i, or Len(s)+1
RECURSIVE FindFrom(_, _, _)
FindFrom(s, sep, i) ==
    IF i > Len(s) THEN Len(s) + 1
    ELSE IF s[i] = sep THEN i ELSE FindFrom(s, sep, i + 1)

\* str.split(sep) for a one-character sep
RECURSIVE Split(_, _)
Split(s, sep) ==
    LET k == FindFrom(s, sep, 1)
    IN  IF k > Len(s) THEN <<s>>
        ELSE <<SubSeq(s, 1, k - 1)>> \o Split(From(s, k + 1), sep)

----------------------------------------------------------------------------
(* normalize_version *)

\* '$' without re.MULTILINE: the end of the string, or just before a final newline
DollarAt(v, q) == q = Len(v) + 1 \/ (q = Len(v) /\ v[q] = NL)

\* '.*$' tried at p: '.' takes no newline; the end of the match, or 0
DotStarDollar(v, p) ==
    LET q == FindFrom(v, NL, p)
    IN  IF DollarAt(v, q) THEN q ELSE 0

\* 'dev' under re.IGNORECASE at i: no character but d, D, e, E, v, V matches
\* one of its letters
IsDevAt(v, i) ==
    /\ i + 2 <= Len(v)
    /\ v[i] \in {"d", "D"}
    /\ v[i + 1] \in {"e", "E"}
    /\ v[i + 2] \in {"v", "V"}

\* A match of the pattern starting at i: the index after it, or 0.
\*   "dev":    [-.]?dev.*$   (re.IGNORECASE)
\*   "hyphen": -.*$
MatchEnd(pat, v, i) ==
    IF pat = "dev"
    THEN IF v[i] \in {"-", "."} /\ IsDevAt(v, i + 1) THEN DotStarDollar(v, i + 4)
         ELSE IF IsDevAt(v, i) THEN DotStarDollar(v, i + 3)
         ELSE 0
    ELSE IF v[i] = "-" THEN DotStarDollar(v, i + 1) ELSE 0

\* re.sub(pat, '', v) from index i on: every leftmost non-overlapping match removed
RECURSIVE ReSubFrom(_, _, _)
ReSubFrom(pat, v, i) ==
    IF i > Len(v) THEN <<>>
    ELSE LET e == MatchEnd(pat, v, i)
         IN  IF e # 0 THEN ReSubFrom(pat, v, e)
             ELSE <<v[i]>> \o ReSubFrom(pat, v, i + 1)

re_sub(pat, v) == ReSubFrom(pat, v, 1)

normalize_version(v) ==
    IF v = None THEN None
    ELSE re_sub("hyphen", re_sub("dev", v))

----------------------------------------------------------------------------
(* get_system_version *)

CmdFailed == [ok |-> FALSE, stdout |-> <<>>]

CmdOutput(out) == [ok |-> TRUE, stdout |-> out]

\* subprocess.run(..., check=True) raised, or result.stdout.strip()
get_system_version(run) == IF run.ok THEN Strip(run.stdout) ELSE None

----------------------------------------------------------------------------
(* the geopandas report parser: the loop over gp_info.split('\n') *)

sGDAL == <<"G", "D", "A", "L">>
sPROJ == <<"P", "R", "O", "J">>
sGEOS == <<"G", "E", "O", "S">>

\* the texts whose str.lower() is 'lib'
LibCasings == {<<l, i, b>> : l \in {"l", "L"}, i \in {"i", "I"}, b \in {"b", "B"}}

\* 'lib' in line.lower(). Only l, L, i, I, b, B and U+0130 lower to a text
\* with one of the letters of 'lib', and U+0130 lowers to 'i' followed by
\* U+0307, which no 'b' can follow at once: 'lib' is in line.lower() exactly
\* when line holds l, i, b next to each other in some casing.
LibInLower(line) == \E w \in LibCasings : Contains(line, w)

\* parts = line.split(':'); parts[1].strip() when len(parts) >= 2, else the old value
ColonField(line, old) ==
    LET parts == Split(line, ":")
    IN  IF Len(parts) >= 2 THEN Strip(parts[2]) ELSE old

\* one pass of the loop body over a line
ParseLine(acc, line) ==
    IF StartsWith(Strip(line), sGDAL)
    THEN [acc EXCEPT !.GDAL = ColonField(line, acc.GDAL)]
    ELSE IF StartsWith(Strip(line), sPROJ)
    THEN [acc EXCEPT !.PROJ = ColonField(line, acc.PROJ)]
    ELSE IF StartsWith(Strip(line), sGEOS) /\ ~LibInLower(line)
    THEN [acc EXCEPT !.GEOS = ColonField(line, acc.GEOS)]
    ELSE acc

RECURSIVE ParseLines(_, _)
ParseLines(acc, lines) ==
    IF lines = <<>> THEN acc
    ELSE ParseLines(ParseLine(acc, Head(lines)), Tail(lines))

\* gp_gdal, gp_proj, gp_geos after the loop
ParseShowVersions(info) ==
    ParseLines([GDAL |-> None, PROJ |-> None, GEOS |-> None], Split(info, NL))

----------------------------------------------------------------------------
(* the package probes *)

Libs == <<"GDAL", "PROJ", "GEOS">>

\* the probed modules, in the order of the script
Packages == <<"osgeo.gdal", "rasterio", "fiona", "pyogrio", "pyproj",
              "shapely", "geopandas", "rioxarray", "odc-geo">>

sVia == <<"v", "i", "a", " ">>
viaRasterio == sVia \o <<"r", "a", "s", "t", "e", "r", "i", "o">>
viaPyproj   == sVia \o <<"p", "y", "p", "r", "o", "j">>

\* the version accessors the script reads from each module
Accessors(pkg) ==
    CASE pkg = "osgeo.gdal" -> {"VersionInfo"}
      [] pkg = "rasterio"   -> {"gdal_version", "proj_version"}
      [] pkg = "fiona"      -> {"gdal_version", "proj_version"}
      [] pkg = "pyogrio"    -> {"get_gdal_version_string", "__gdal_version__"}
      [] pkg = "pyproj"     -> {"proj_version_str"}
      [] pkg = "shapely"    -> {"geos_version_string"}
      [] pkg = "geopandas"  -> {"show_versions"}
      [] OTHER              -> {}

\* A module as the import statement finds it: missing, or present with some
\* accessors, each with the value it gives (show_versions: the text it prints).
NotInstalled == [seen |-> TRUE, installed |-> FALSE, attrs |-> [a \in {} |-> <<>>]]

Installed(attrs) == [seen |-> TRUE, installed |-> TRUE, attrs |-> attrs]

NotProbed == [seen |-> FALSE, installed |-> FALSE, attrs |-> [a \in {} |-> <<>>]]

Has(env, a) == a \in DOMAIN env.attrs

\* outcomes of a probe block
\* results[pkg] = {'GDAL': gdal, 'PROJ': proj, 'GEOS': geos}
Entry(pkg, gdal, proj, geos) ==
    [kind |-> "entry", row |-> [GDAL |-> gdal, PROJ |-> proj, GEOS |-> geos, pkg |-> pkg]]

\* the block leaves results alone (pass)
Skip == [kind |-> "skip"]

\* the block lets the exception e out
Raise(e) == [kind |-> "raise", exc |-> e]

probe_osgeo(env) ==
    IF ~env.installed THEN Skip
    ELSE IF ~Has(env, "VersionInfo") THEN Raise("AttributeError")
    ELSE Entry("osgeo.gdal", env.attrs["VersionInfo"], None, None)

probe_rasterio(env) ==
    IF ~env.installed THEN Skip
    ELSE IF Has(env, "gdal_version") /\ Has(env, "proj_version")
    THEN Entry("rasterio", env.attrs["gdal_version"], env.attrs["proj_version"], None)
    \* except AttributeError: the handler reads rasterio.gdal_version() again
    ELSE IF Has(env, "gdal_version")
    THEN Entry("rasterio", env.attrs["gdal_version"], None, None)
    ELSE Raise("AttributeError")

probe_fiona(env) ==
    IF ~env.installed THEN Skip
    ELSE IF ~Has(env, "gdal_version") THEN Raise("AttributeError")
    ELSE Entry("fiona", env.attrs["gdal_version"],
               IF Has(env, "proj_version") THEN env.attrs["proj_version"] ELSE None,
               None)

probe_pyogrio(env) ==
    IF ~env.installed THEN Skip
    ELSE IF Has(env, "get_gdal_version_string")
    THEN Entry("pyogrio", env.attrs["get_gdal_version_string"], None, None)
    ELSE IF Has(env, "__gdal_version__")
    THEN Entry("pyogrio", env.attrs["__gdal_version__"], None, None)
    \* except AttributeError: pass
    ELSE Skip

probe_pyproj(env) ==
    IF ~env.installed THEN Skip
    ELSE IF ~Has(env, "proj_version_str") THEN Raise("AttributeError")
    ELSE Entry("pyproj", None, env.attrs["proj_version_str"], None)

\* probe_shapely with the entry recorded whether or not the import succeeded
probe_shapely_recordsAbsent(env) ==
    IF ~env.installed THEN Entry("shapely", None, None, None)
    ELSE IF ~Has(env, "geos_version_string") THEN Raise("AttributeError")
    ELSE Entry("shapely", None, None, env.attrs["geos_version_string"])

probe_shapely(env) ==
    IF ~env.installed THEN Skip
    ELSE IF ~Has(env, "geos_version_string") THEN Raise("AttributeError")
    ELSE Entry("shapely", None, None, env.attrs["geos_version_string"])

probe_geopandas(env) ==
    IF ~env.installed THEN Skip
    ELSE IF ~Has(env, "show_versions") THEN Raise("AttributeError")
    ELSE LET gp == ParseShowVersions(env.attrs["show_versions"])
         IN  Entry("geopandas", gp.GDAL, gp.PROJ, gp.GEOS)

probe_rioxarray(env) ==
    IF ~env.installed THEN Skip
    ELSE Entry("rioxarray", viaRasterio, viaRasterio, None)

probe_odc_geo(env) ==
    IF ~env.installed THEN Skip
    ELSE Entry("odc-geo", viaRasterio, viaPyproj, None)

----------------------------------------------------------------------------
(* check_alignment *)

\* {pkg: v[lib] for pkg, v in results.items()}, in the order of the dict
PkgVersions(res, lib) == [i \in 1..Len(res) |-> <<res[i].pkg, res[i][lib]>>]

\* v is not None and not v.startswith('via ')
IsLiteral(v) == v # None /\ ~StartsWith(v, sVia)

\* ActualVersions that filters out None only, keeping the 'via ...' markers
RECURSIVE ActualVersions_keepsVia(_)
ActualVersions_keepsVia(pv) ==
    IF pv = <<>> THEN <<>>
    ELSE (IF Head(pv)[2] # None THEN <<Head(pv)>> ELSE <<>>)
           \o ActualVersions_keepsVia(Tail(pv))

RECURSIVE ActualVersions(_)
ActualVersions(pv) ==
    IF pv = <<>> THEN <<>>
    ELSE (IF IsLiteral(Head(pv)[2]) THEN <<Head(pv)>> ELSE <<>>) \o ActualVersions(Tail(pv))

\* Mismatches that lets every package pass when the system version is unknown
RECURSIVE Mismatches_skipsUnknown(_, _)
Mismatches_skipsUnknown(actual, system_norm) ==
    IF actual = <<>> THEN <<>>
    ELSE LET pkg == Head(actual)[1]
             v == Head(actual)[2]
             pkg_norm == normalize_version(v)
         IN  (IF system_norm # None /\ pkg_norm # system_norm
              THEN <<<<pkg, v, pkg_norm>>>> ELSE <<>>)
               \o Mismatches_skipsUnknown(Tail(actual), system_norm)

RECURSIVE Mismatches(_, _)
Mismatches(actual, system_norm) ==
    IF actual = <<>> THEN <<>>
    ELSE LET pkg == Head(actual)[1]
             v == Head(actual)[2]
             pkg_norm == normalize_version(v)
         IN  (IF pkg_norm # system_norm THEN <<<<pkg, v, pkg_norm>>>> ELSE <<>>)
               \o Mismatches(Tail(actual), system_norm)

\* check_alignment without the early return for an empty actual_versions
check_alignment_noEarlyReturn(lib_name, system_ver, pkg_versions) ==
    LET mm == Mismatches(ActualVersions(pkg_versions), normalize_version(system_ver))
    IN  [ok |-> mm = <<>>, nodata |-> FALSE, mismatches |-> mm]

check_alignment(lib_name, system_ver, pkg_versions) ==
    LET actual_versions == ActualVersions(pkg_versions)
    IN  IF actual_versions = <<>>
        THEN [ok |-> TRUE, nodata |-> TRUE, mismatches |-> <<>>]
        ELSE LET mm == Mismatches(actual_versions, normalize_version(system_ver))
             IN  [ok |-> mm = <<>>, nodata |-> FALSE, mismatches |-> mm]

----------------------------------------------------------------------------
(* inputs *)

\* the largest number of probed modules an environment has installed
MaxInstalled == 3

\* the longest raw string handed to normalize_version
MaxLen == 4

\* the longest text after "dev" in a composed version
MaxTail == 2

\* the largest number of lines of a geopandas report
MaxLines == 2

StringsUpTo(A, n) == UNION {[1..k -> A] : k \in 0..n}

s38    == <<"3", ".", "8">>
s38dev == <<"3", ".", "8", "-", "d", "e", "v", "3">>
s92    == <<"9", ".", "2">>

\* what a version command may do: fail, or print a version and a newline
SysRuns == {CmdFailed, CmdOutput(s38 \o <<NL>>)}

\* what a version accessor may return
PkgVersionValues == {s38dev, s92}

lnGdal      == <<"G", "D", "A", "L", ":", " ", "3", ".", "8">>
lnGdalDir   == <<"G", "D", "A", "L", " ", "d", "a", "t", "a", " ", "d", "i", "r", ":", " ", "/", "d">>
lnProj2     == <<"P", "R", "O", "J", " ", ":", " ", "9", ".", "2", ":", "1">>
lnProjPad   == <<" ", " ", "P", "R", "O", "J", ":", " ", "9", ".", "2", " ">>
lnGeos      == <<"G", "E", "O", "S", " ", ":", " ", "3", ".", "8">>
lnGeosLib   == <<"G", "E", "O", "S", " ", "l", "i", "b", " ", ":", " ", "x">>
lnHeader    == <<"G", "E", "O", "S", ",", " ", "G", "D", "A", "L", " ", "I", "N", "F", "O">>
lnPython    == <<"p", "y", "t", "h", "o", "n", " ", ":", " ", "3">>
lnGdalEmpty == <<"G", "D", "A", "L", ":">>
lnGeosLibUp == <<"G", "E", "O", "S", " ", "L", "I", "B", ":", "y">>
lnGdalVt    == <<"U+000B", "G", "D", "A", "L", ":", "U+00A0", "3", ".", "8", "U+0085">>

GpLines == {lnGdal, lnGdalDir, lnProj2, lnProjPad, lnGeos, lnGeosLib, lnHeader, lnPython, lnGdalEmpty,
            lnGeosLibUp, lnGdalVt}

RECURSIVE JoinLines(_)
JoinLines(ls) ==
    IF ls = <<>> THEN <<>>
    ELSE IF Len(ls) = 1 THEN ls[1]
    ELSE ls[1] \o <<NL>> \o JoinLines(Tail(ls))

\* the reports given to the parser on its own
ParseTexts == {JoinLines(ls) : ls \in StringsUpTo(GpLines, MaxLines)}

\* the reports geopandas.show_versions() may print during a run
GpTexts == {JoinLines(<<lnGeos, lnGeosLib, lnGdal, lnProj2>>),
            JoinLines(<<lnGdalEmpty, lnProjPad>>)}

AttrValues(pkg) == IF pkg = "geopandas" THEN GpTexts ELSE PkgVersionValues

Envs(pkg) ==
    {NotInstalled} \cup
    {Installed(a) : a \in UNION {[S -> AttrValues(pkg)] : S \in SUBSET Accessors(pkg)}}

NormAlphabet == {"3", ".", "-", "d", "E", "v", NL}

TailAlphabet == {"3", ".", "-", "d", NL}

Bases == {<<"3">>, s38, s38 \o <<".", "0">>}

Separators == {<<>>, <<"-">>, <<".">>}

DevCasings == {<<d, e, v>> : d \in {"d", "D"}, e \in {"e", "E"}, v \in {"v", "V"}}

----------------------------------------------------------------------------
(* the run of the script *)

PackageSet == {Packages[i] : i \in 1..Len(Packages)}

\* the position after the probe of pkg
NextPc(pkg) ==
    LET i == CHOOSE j \in 1..Len(Packages) : Packages[j] = pkg
    IN  IF i = Len(Packages) THEN "check" ELSE Packages[i + 1]

NumInstalled == Cardinality({p \in PackageSet : probed[p].installed})

RunInit ==
    /\ system = [GDAL |-> None, PROJ |-> None, GEOS |-> None]
    /\ results = <<>>
    /\ probed = [p \in PackageSet |-> NotProbed]
    /\ verdict = [GDAL |-> FALSE, PROJ |-> FALSE, GEOS |-> FALSE]
    /\ mismatches = [GDAL |-> <<>>, PROJ |-> <<>>, GEOS |-> <<>>]
    /\ nodata = [GDAL |-> FALSE, PROJ |-> FALSE, GEOS |-> FALSE]
    /\ exit_code = -1      \* -1: the process has not exited
    /\ fault = ""

NormIdle ==
    /\ n_pc = "idle"
    /\ v_in = None
    /\ v_base = None
    /\ v_norm = None
    /\ v_norm2 = None

ParseIdle ==
    /\ g_pc = "idle"
    /\ gp_info = <<>>
    /\ gp_parsed = [GDAL |-> None, PROJ |-> None, GEOS |-> None]

Init ==
    /\ pc = "system"
    /\ RunInit
    /\ NormIdle
    /\ ParseIdle

\* system_gdal, system_proj, system_geos = get_system_version(...)
GetSystemVersions ==
    /\ pc = "system"
    /\ \E g \in SysRuns, p \in SysRuns, s \in SysRuns :
          system' = [GDAL |-> get_system_version(g),
                     PROJ |-> get_system_version(p),
                     GEOS |-> get_system_version(s)]
    /\ pc' = Packages[1]
    /\ UNCHANGED <<results, probed, verdict, mismatches, nodata, exit_code, fault>>
    /\ UNCHANGED <<normVars, parseVars>>

\* one try/except block: r is what the block does in the environment env
ProbeStep(pkg, env, r) ==
    /\ pc = pkg
    /\ env.installed => NumInstalled < MaxInstalled
    /\ probed' = [probed EXCEPT ![pkg] = env]
    /\ results' = IF r.kind = "entry" THEN Append(results, r.row) ELSE results
    /\ pc' = IF r.kind = "raise" THEN "crashed" ELSE NextPc(pkg)
    /\ fault' = IF r.kind = "raise" THEN r.exc ELSE fault
    \* an uncaught exception ends the interpreter with status 1
    /\ exit_code' = IF r.kind = "raise" THEN 1 ELSE exit_code
    /\ UNCHANGED <<system, verdict, mismatches, nodata>>
    /\ UNCHANGED <<normVars, parseVars>>

ProbeOsgeo == \E env \in Envs("osgeo.gdal") : ProbeStep("osgeo.gdal", env, probe_osgeo(env))

ProbeRasterio == \E env \in Envs("rasterio") : ProbeStep("rasterio", env, probe_rasterio(env))

ProbeFiona == \E env \in Envs("fiona") : ProbeStep("fiona", env, probe_fiona(env))

ProbePyogrio == \E env \in Envs("pyogrio") : ProbeStep("pyogrio", env, probe_pyogrio(env))

ProbePyproj == \E env \in Envs("pyproj") : ProbeStep("pyproj", env, probe_pyproj(env))

ProbeShapely == \E env \in Envs("shapely") : ProbeStep("shapely", env, probe_shapely(env))

ProbeGeopandas == \E env \in Envs("geopandas") : ProbeStep("geopandas", env, probe_geopandas(env))

ProbeRioxarray == \E env \in Envs("rioxarray") : ProbeStep("rioxarray", env, probe_rioxarray(env))

ProbeOdcGeo == \E env \in Envs("odc-geo") : ProbeStep("odc-geo", env, probe_odc_geo(env))

\* gdal_ok, proj_ok, geos_ok = check_alignment(...)
CheckAlignment ==
    /\ pc = "check"
    /\ LET g == check_alignment("GDAL", system.GDAL, PkgVersions(results, "GDAL"))
           p == check_alignment("PROJ", system.PROJ, PkgVersions(results, "PROJ"))
           s == check_alignment("GEOS", system.GEOS, PkgVersions(results, "GEOS"))
       IN  /\ verdict' = [GDAL |-> g.ok, PROJ |-> p.ok, GEOS |-> s.ok]
           /\ mismatches' = [GDAL |-> g.mismatches, PROJ |-> p.mismatches,
                             GEOS |-> s.mismatches]
           /\ nodata' = [GDAL |-> g.nodata, PROJ |-> p.nodata, GEOS |-> s.nodata]
    /\ pc' = "summary"
    /\ UNCHANGED <<system, results, probed, exit_code, fault>>
    /\ UNCHANGED <<normVars, parseVars>>

\* if gdal_ok and proj_ok and geos_ok: sys.exit(0) else: sys.exit(1)
\* exit_status that leaves geos_ok out of the condition
exit_status_forgetsGeos(gdal_ok, proj_ok, geos_ok) == IF gdal_ok /\ proj_ok THEN 0 ELSE 1

exit_status(gdal_ok, proj_ok, geos_ok) == IF gdal_ok /\ proj_ok /\ geos_ok THEN 0 ELSE 1

Summary ==
    /\ pc = "summary"
    /\ exit_code' = exit_status(verdict.GDAL, verdict.PROJ, verdict.GEOS)
    /\ pc' = "exit"
    /\ UNCHANGED <<system, results, probed, verdict, mismatches, nodata, fault>>
    /\ UNCHANGED <<normVars, parseVars>>

Next ==
    \/ GetSystemVersions
    \/ ProbeOsgeo
    \/ ProbeRasterio
    \/ ProbeFiona
    \/ ProbePyogrio
    \/ ProbePyproj
    \/ ProbeShapely
    \/ ProbeGeopandas
    \/ ProbeRioxarray
    \/ ProbeOdcGeo
    \/ CheckAlignment
    \/ Summary

Spec == Init /\ [][Next]_vars

----------------------------------------------------------------------------
(* normalize_version on its own *)

NormInit ==
    /\ pc = "off"
    /\ RunInit
    /\ ParseIdle
    /\ n_pc = "input"
    /\ v_norm = None
    /\ v_norm2 = None
    /\ \/ /\ v_in \in StringsUpTo(NormAlphabet, MaxLen) \cup {None}
          /\ v_base = None
       \/ \E b \in Bases, s \in Separators, d \in DevCasings,
             t \in StringsUpTo(TailAlphabet, MaxTail) :
            /\ v_in = b \o s \o d \o t
            /\ v_base = b

Normalize ==
    /\ n_pc = "input"
    /\ v_norm' = normalize_version(v_in)
    /\ n_pc' = "once"
    /\ UNCHANGED <<v_in, v_base, v_norm2, runVars, parseVars>>

NormalizeAgain ==
    /\ n_pc = "once"
    /\ v_norm2' = normalize_version(v_norm)
    /\ n_pc' = "twice"
    /\ UNCHANGED <<v_in, v_base, v_norm, runVars, parseVars>>

NormNext == Normalize \/ NormalizeAgain

SpecNorm == NormInit /\ [][NormNext]_vars

----------------------------------------------------------------------------
(* the geopandas report parser on its own *)

ParseInit ==
    /\ pc = "off"
    /\ RunInit
    /\ NormIdle
    /\ g_pc = "input"
    /\ gp_info \in ParseTexts
    /\ gp_parsed = [GDAL |-> None, PROJ |-> None, GEOS |-> None]

ParseReport ==
    /\ g_pc = "input"
    /\ gp_parsed' = ParseShowVersions(gp_info)
    /\ g_pc' = "parsed"
    /\ UNCHANGED <<gp_info, runVars, normVars>>

ParseNext == ParseReport

SpecParse == ParseInit /\ [][ParseNext]_vars

----------------------------------------------------------------------------
(* properties of the run *)

LibSet == {Libs[i] : i \in 1..Len(Libs)}

Checked == pc \in {"summary", "exit"}

\* the rows of results whose entry for lib is a literal version
Reporting(lib) == {i \in 1..Len(results) : IsLiteral(results[i][lib])}

\* the reporting rows whose normalized version differs from the normalized system version
Differing(lib) ==
    {i \in Reporting(lib) :
        normalize_version(results[i][lib]) # normalize_version(system[lib])}

MismatchSet(lib) == {mismatches[lib][k] : k \in 1..Len(mismatches[lib])}

HasEntry(p) == \E i \in 1..Len(results) : results[i].pkg = p

\* C1: when the run reaches the final summary, the exit code is 0 if and only
\* if check_alignment returned aligned for GDAL, PROJ and GEOS, and 1 otherwise.
C1_ExitIffAllAligned ==
    pc = "exit" =>
        LET aligned == \A lib \in LibSet :
                check_alignment(lib, system[lib], PkgVersions(results, lib)).ok
        IN  /\ exit_code \in {0, 1}
            /\ exit_code = 0 <=> aligned

\* a run in which GEOS alone is misaligned
C1_Witness ==
    /\ pc = "exit"
    /\ exit_code = 1
    /\ verdict.GDAL /\ ~nodata.GDAL
    /\ verdict.PROJ
    /\ ~verdict.GEOS

\* C2: check_alignment passes exactly when no package with a literal version
\* differs from the system version after normalization; when it fails, the
\* mismatch list holds exactly the differing packages, each once, with its raw
\* and its normalized value, and no package whose entry is absent or a sentinel.
C2_MismatchesExact ==
    Checked =>
        \A lib \in LibSet :
            /\ verdict[lib] <=> Differing(lib) = {}
            /\ ~verdict[lib] =>
                 /\ MismatchSet(lib) =
                      {<<results[i].pkg, results[i][lib],
                         normalize_version(results[i][lib])>> : i \in Differing(lib)}
                 /\ Len(mismatches[lib]) = Cardinality(Differing(lib))

\* a library with one differing package, one matching package whose raw text
\* differs from the system's, and one sentinel
C2_Witness ==
    /\ pc = "exit"
    /\ \E lib \in LibSet :
          /\ ~verdict[lib]
          /\ Len(mismatches[lib]) = 1
          /\ \E i \in Reporting(lib) :
                /\ i \notin Differing(lib)
                /\ results[i][lib] # system[lib]
          /\ \E i \in 1..Len(results) : StartsWith(results[i][lib], sVia)

\* C3: a library for which every entry is absent or a 'via ...' sentinel
\* (also when results is empty) is reported as no data and passes, whatever
\* the system version is, unknown included.
C3_NoDataPasses ==
    Checked =>
        \A lib \in LibSet :
            Reporting(lib) = {} => nodata[lib] /\ verdict[lib]

\* only sentinels for GDAL, and the system GDAL version unknown
C3_Witness ==
    /\ pc = "exit"
    /\ system.GDAL = None
    /\ Reporting("GDAL") = {}
    /\ \E i \in 1..Len(results) : StartsWith(results[i].GDAL, sVia)
    /\ nodata.GDAL
    /\ exit_code = 0

\* C6: every failure is recovered locally: no exception is left uncaught, and
\* the process ends only through the final summary.
C6_AllFailuresRecovered ==
    /\ fault = ""
    /\ exit_code # -1 => pc = "exit"

\* C7: a module that is installed but lacks an expected version accessor
\* still gets its entry in results, and the probe goes on.
C7_DriftKeepsEntry ==
    \A p \in PackageSet :
        (/\ probed[p].installed
         /\ DOMAIN probed[p].attrs # Accessors(p))
            => HasEntry(p) /\ fault = ""

\* C8: the probe of a module that is not installed leaves results as it was,
\* raises nothing and goes on to the next probe; the module has no entry and
\* no mismatch is recorded for it.
C8_NotInstalledStep ==
    \A p \in PackageSet :
        (pc = p /\ probed'[p].seen /\ ~probed'[p].installed)
            => /\ results' = results
               /\ fault' = ""
               /\ exit_code' = exit_code
               /\ pc' = NextPc(p)

C8_NotInstalledState ==
    \A p \in PackageSet :
        (probed[p].seen /\ ~probed[p].installed)
            => /\ ~HasEntry(p)
               /\ \A lib \in LibSet : \A m \in MismatchSet(lib) : m[1] # p

C8_NotInstalledOmitted == [][C8_NotInstalledStep]_vars /\ []C8_NotInstalledState

\* a finished run with a mismatch, in which shapely was not installed and
\* other modules were
C8_Witness ==
    /\ pc = "exit"
    /\ probed["shapely"].seen /\ ~probed["shapely"].installed
    /\ Len(results) >= 2
    /\ exit_code = 1

\* C10: when the system version of a library is unknown and some package
\* reports a literal version for it, every such package is a mismatch, the
\* library fails, and the process exits with code 1.
C10_UnknownSystemFails ==
    Checked =>
        \A lib \in LibSet :
            (system[lib] = None /\ Reporting(lib) # {})
                => /\ ~verdict[lib]
                   /\ \A i \in Reporting(lib) :
                        <<results[i].pkg, results[i][lib],
                          normalize_version(results[i][lib])>> \in MismatchSet(lib)
                   /\ pc = "exit" => exit_code = 1

\* the PROJ command failed and two packages report a PROJ version
C10_Witness ==
    /\ pc = "exit"
    /\ system.PROJ = None
    /\ Cardinality(Reporting("PROJ")) >= 2
    /\ Len(mismatches.PROJ) >= 2
    /\ exit_code = 1

----------------------------------------------------------------------------
(* properties of normalize_version *)

\* C4: normalize_version is idempotent.
C4_Idempotent == n_pc = "twice" => v_norm2 = v_norm

\* C5: a base of dot-separated numbers followed by an optional separator,
\* "dev" in any casing and any trailing text normalizes to the base, and so
\* does the base.
C5_DevSuffixStripped ==
    (n_pc \in {"once", "twice"} /\ v_base # None)
        => /\ v_norm = v_base
           /\ normalize_version(v_base) = v_base

----------------------------------------------------------------------------
(* properties of the geopandas report parser *)

LibName(lib) ==
    CASE lib = "GDAL" -> sGDAL
      [] lib = "PROJ" -> sPROJ
      [] lib = "GEOS" -> sGEOS

\* the lines of the report that carry a value for lib
ValueLines(info, lib) ==
    LET lines == Split(info, NL)
    IN  {i \in 1..Len(lines) :
            /\ StartsWith(Strip(lines[i]), LibName(lib))
            /\ lib = "GEOS" => ~LibInLower(lines[i])
            /\ Contains(lines[i], <<":">>)}

\* the trimmed text after the first colon
AfterFirstColon(line) == Strip(From(line, FindFrom(line, ":", 1) + 1))

\* C9: the value recorded for a library is the trimmed text after the first
\* colon of a line whose stripped form begins with the library's name (for
\* GEOS, a line without "lib"), and is absent when there is no such line.
C9_ValueAfterFirstColon ==
    g_pc = "parsed" =>
        \A lib \in LibSet :
            LET lines == Split(gp_info, NL)
                vl == ValueLines(gp_info, lib)
            IN  IF vl = {} THEN gp_parsed[lib] = None
                ELSE \E i \in vl : gp_parsed[lib] = AfterFirstColon(lines[i])

====
